---------------------------- MODULE Spec2Model ----------------------------
(***************************************************************************)
(* A model of lopper/assists/isospec.py: the resolution of an isolation    *)
(* specification (json_tree) against a hardware description (sdt) into a   *)
(* domains tree.                                                           *)
(*                                                                         *)
(* Strings the code inspects with regular expressions are sequences of     *)
(* one-character strings; strings it only compares or copies are TLA+      *)
(* strings.                                                                *)
(***************************************************************************)
EXTENDS Integers, Sequences, FiniteSets, TLC

VARIABLES
    sdt,            \* the hardware description tree (read only)
    json_tree,      \* the isolation specification tree (read only)
    pc,             \* position of the run
    cpus_info,      \* isospec_process_cpus: the cpus property being resolved
    c,              \* isospec_process_cpus: number of cpu entries processed
    cpus_list,      \* isospec_process_cpus: the clusters resolved so far
    access_node,    \* isospec_process_access: the children of the access node
    a,              \* isospec_process_access: number of access children done
    dests,          \* isospec_process_access: destinations of the current child
    d,              \* isospec_process_access: number of destinations done
    flag_mapping,   \* isospec_process_access: flags of the current child
    access_list,    \* isospec_process_access: resolved device entries
    memory_list,    \* isospec_process_access: resolved memory regions
    sram_list,      \* isospec_process_access: resolved sram regions
    name,           \* classifiers: the name being classified
    defs,           \* isospec_device_flags: the access definition
    n,              \* isospec_domain: number of subsystems processed
    domains_tree,   \* isospec_domain: the output tree, one node per subsystem
    written,        \* isospec_domain: number of calls of sdt.write
    ret             \* the value returned by the function that ran

vars == << sdt, json_tree, pc, cpus_info, c, cpus_list, access_node, a, dests,
           d, flag_mapping, access_list, memory_list, sram_list, name, defs,
           n, domains_tree, written, ret >>

----------------------------------------------------------------------------
(* Bounds of the model.                                                    *)

MaxCpus == 2        \* cpu entries in one cpus property

MaxParts == 2       \* parts a classified name is put together from

MaxFlags == 2       \* values of a flags property, properties of a flags node

MaxDests == 2       \* names in one destinations property

MaxAccess == 2      \* children of one access node

MaxSubsystems == 2  \* subsystems of one specification

----------------------------------------------------------------------------
(* Strings and the regular expressions the code uses.                      *)

Digits == {"0", "1", "2", "3", "4", "5", "6", "7", "8", "9"}

DigitChars == << "0", "1", "2", "3", "4", "5", "6", "7", "8", "9" >>

HexChars == << "0", "1", "2", "3", "4", "5", "6", "7", "8", "9",
               "a", "b", "c", "d", "e", "f" >>

Max(S) == CHOOSE x \in S : \A y \in S : y <= x

Min(S) == CHOOSE x \in S : \A y \in S : x <= y

\* re.search of a literal: the literal occurs somewhere in s.
Contains(sub, s) ==
    \E i \in 0 .. (Len(s) - Len(sub)) : SubSeq(s, i + 1, i + Len(sub)) = sub

\* re.search( pattern, s ) for the patterns of the two tables. "APU*" is
\* "AP" followed by any number of "U", "OCM.*" is "OCM" followed by anything:
\* both match wherever their fixed part occurs.
re_search(pattern, s) ==
    CASE pattern = "APU*"  -> Contains(<< "A", "P" >>, s)
      [] pattern = "RPU*"  -> Contains(<< "R", "P" >>, s)
      [] pattern = "DDR0"  -> Contains(<< "D", "D", "R", "0" >>, s)
      [] pattern = "OCM.*" -> Contains(<< "O", "C", "M" >>, s)

\* re.match( r'.*?(\d+)', s ).group(1): the first maximal run of digits of s,
\* << >> when s holds no digit (no match).
first_number(s) ==
    LET starts == { i \in 1 .. Len(s) : s[i] \in Digits }
    IN  IF starts = {} THEN << >>
        ELSE LET b == Min(starts)
                 e == Max({ j \in b .. Len(s) :
                              \A k \in b .. j : s[k] \in Digits })
             IN  SubSeq(s, b, e)

\* int( digits )
RECURSIVE int(_)
int(s) ==
    IF s = << >> THEN 0
    ELSE int(SubSeq(s, 1, Len(s) - 1)) * 10
         + ((CHOOSE i \in 1 .. 10 : DigitChars[i] = s[Len(s)]) - 1)

RECURSIVE HexDigits(_)
HexDigits(v) ==
    IF v < 16 THEN << HexChars[v + 1] >>
    ELSE Append(HexDigits(v \div 16), HexChars[(v % 16) + 1])

\* hex( v ) for v >= 0
hex(v) == << "0", "x" >> \o HexDigits(v)

----------------------------------------------------------------------------
(* Bit-mask utilities.                                                     *)

check_bit_set(v, k) == (v \div (2 ^ k)) % 2 = 1

set_bit(value, bit) ==
    IF check_bit_set(value, bit) THEN value ELSE value + 2 ^ bit

----------------------------------------------------------------------------
(* Name-pattern classifiers.                                               *)

iso_cpus_to_device_tree_map ==
    << [pattern |-> "APU*", value |-> "arm,cortex-a72"],
       [pattern |-> "RPU*", value |-> "arm,cortex-r5"] >>

iso_memory_device_map ==
    << [pattern |-> "DDR0",  value |-> << "memory", "memory@.*" >>],
       [pattern |-> "OCM.*", value |-> << "sram", "" >>] >>

\* The entries of a table whose pattern matches s.
Matches(table, s) ==
    { i \in DOMAIN table : re_search(table[i].pattern, s) }

\* A mutant of map_lookup: the loop stops at the first match.
map_lookup_first(table, s) ==
    IF Matches(table, s) = {} THEN [found |-> FALSE, value |-> << "", "" >>]
    ELSE [found |-> TRUE, value |-> table[Min(Matches(table, s))].value]

\* for n,v in table.items(): if re.search( n, s ): found = v
\* The loop has no break: every match overwrites the one before it.
map_lookup(table, s) ==
    IF Matches(table, s) = {} THEN [found |-> FALSE, value |-> << "", "" >>]
    ELSE [found |-> TRUE, value |-> table[Max(Matches(table, s))].value]

\* device_tree_compat of a cpu name, "" when no pattern matches
cpu_compat(cpu_name) ==
    IF map_lookup(iso_cpus_to_device_tree_map, cpu_name).found
    THEN map_lookup(iso_cpus_to_device_tree_map, cpu_name).value
    ELSE ""

isospec_memory_type(s) ==
    IF map_lookup(iso_memory_device_map, s).found
    THEN map_lookup(iso_memory_device_map, s).value[1]
    ELSE ""

isospec_memory_dest(s) ==
    IF map_lookup(iso_memory_device_map, s).found
    THEN map_lookup(iso_memory_device_map, s).value[2]
    ELSE ""

----------------------------------------------------------------------------
(* The CPU resolver.                                                       *)

AllCpusMask == 15   \* cluster_mask = 0xf

CpuAt == << "c", "p", "u", "@" >>

\* sdt.tree.cnodes( compat ): the nodes with that compatible string, in
\* tree order.
cnodes(hw, compat) == SelectSeq(hw.cpus, LAMBDA x : x.compatible = compat)

\* A mutant of node_matches: the node name must be exactly cpu@<number>.
node_matches_exact(cpu_number, node_name) == node_name = CpuAt \o cpu_number

\* re.search( "cpu@" + cpu_number, c.name )
node_matches(cpu_number, node_name) == Contains(CpuAt \o cpu_number, node_name)

\* A mutant of cluster_mask: a name with a number always sets its bit.
cluster_mask_unchecked(cpu_number, compatible_nodes) ==
    IF cpu_number # << >> THEN set_bit(0, int(cpu_number)) ELSE AllCpusMask

\* A mutant of cluster_mask: "all cpus" is 0x3, as the comment of line 125
\* has it.
cluster_mask_0x3(cpu_number, compatible_nodes) ==
    IF cpu_number # << >>
    THEN IF \E i \in DOMAIN compatible_nodes :
                node_matches(cpu_number, compatible_nodes[i].name)
         THEN set_bit(0, int(cpu_number))
         ELSE 0
    ELSE 3

\* Lines 150-156: the bit of the cpu number when a node of the cluster
\* matches it, 0 when none does, 0xf when the name holds no number
\* (cpu_number = -1, here << >>).
cluster_mask(cpu_number, compatible_nodes) ==
    IF cpu_number # << >>
    THEN IF \E i \in DOMAIN compatible_nodes :
                node_matches(cpu_number, compatible_nodes[i].name)
         THEN set_bit(0, int(cpu_number))
         ELSE 0
    ELSE AllCpusMask

\* Lines 161-175: secure defaults to False, mode "el" sets bits 0 and 1.
mode_mask(cpu) == IF cpu.mode = "el" THEN set_bit(set_bit(0, 0), 1) ELSE 0

secure_of(cpu) == IF cpu.secure = "absent" THEN "False" ELSE cpu.secure

\* A mutant of cpu_iter: a compatible string without nodes voids the list.
cpu_iter_void(st, cpu, hw) ==
    LET compat == cpu_compat(cpu.name)
        nodes  == cnodes(hw, compat)
    IN  IF compat = "" THEN st
        ELSE IF nodes = << >> \/ ~nodes[1].parent.present
        THEN [st EXCEPT !.returned = TRUE]
        ELSE [st EXCEPT !.cpus_list = Append(@,
                 [cluster |-> IF nodes[1].parent.label # ""
                              THEN nodes[1].parent.label
                              ELSE nodes[1].parent.name,
                  cpumask |-> hex(cluster_mask(first_number(cpu.name), nodes)),
                  mode    |-> [secure |-> secure_of(cpu),
                               el |-> hex(mode_mask(cpu))]])]

\* One iteration of the loop of isospec_process_cpus (lines 111-188) on the
\* entry cpu. st.returned is set when the function returns None.
cpu_iter(st, cpu, hw) ==
    LET compat == cpu_compat(cpu.name)
        nodes  == cnodes(hw, compat)
    IN  IF compat = "" THEN st                 \* warning: no mapping
        ELSE IF nodes = << >> THEN st          \* no compatible node: nothing
        ELSE IF ~nodes[1].parent.present
        THEN [st EXCEPT !.returned = TRUE]     \* no cluster: return None
        ELSE [st EXCEPT !.cpus_list = Append(@,
                 [cluster |-> IF nodes[1].parent.label # ""
                              THEN nodes[1].parent.label
                              ELSE nodes[1].parent.name,
                  cpumask |-> hex(cluster_mask(first_number(cpu.name), nodes)),
                  mode    |-> [secure |-> secure_of(cpu),
                               el |-> hex(mode_mask(cpu))]])]

\* isospec_process_cpus( cpus_info, sdt, json_tree ): the loop from entry i
\* on, then the return of cpus_list (line 201), or None (line 141).
RECURSIVE cpu_loop(_, _, _, _)
cpu_loop(st, info, i, hw) ==
    IF st.returned THEN [none |-> TRUE, list |-> << >>]
    ELSE IF i > Len(info) THEN [none |-> FALSE, list |-> st.cpus_list]
    ELSE cpu_loop(cpu_iter(st, info[i], hw), info, i + 1, hw)

isospec_process_cpus(info, hw) ==
    cpu_loop([cpus_list |-> << >>, returned |-> FALSE], info, 1, hw)

----------------------------------------------------------------------------
(* Inputs of the CPU resolver.                                             *)

CpuNames ==
    { << "A", "P", "U" >>,
      << "A", "P", "U", "0" >>,
      << "A", "P", "U", "1" >>,
      << "A", "P", "U", "1", "0" >>,
      << "A", "P", "U", "1", "_", "L" >>,
      << "R", "P", "U" >>,
      << "R", "P", "U", "0" >>,
      << "A", "P", "U", "_", "R", "P", "U" >>,
      << "G", "P", "U", "0" >> }

\* An entry of a cpus property: name, and optionally secure and mode.
CpuEntries ==
    { [name |-> nm, secure |-> sm[1], mode |-> sm[2]] :
        nm \in CpuNames, sm \in { << "absent", "absent" >>, << "True", "el" >> } }

SeqsUpTo(S, k) == UNION { [1 .. m -> S] : m \in 0 .. k }

CpusInputs == SeqsUpTo(CpuEntries, MaxCpus)

A72Cluster == [present |-> TRUE, label |-> "apu", name |-> "cpus-a72@0"]

R5Cluster == [present |-> TRUE, label |-> "", name |-> "cpus-r5@3"]

NoCluster == [present |-> FALSE, label |-> "", name |-> ""]

CpuNode(nm, compat, parent) ==
    [name |-> nm, compatible |-> compat, parent |-> parent]

Cpu0 == << "c", "p", "u", "@", "0" >>

Cpu1 == << "c", "p", "u", "@", "1" >>

Cpu100 == << "c", "p", "u", "@", "1", "0", "0" >>

\* The cpu nodes of the hardware trees the resolver is run against.
HwCpus ==
    { << >>,
      << CpuNode(Cpu0, "arm,cortex-a72", A72Cluster),
         CpuNode(Cpu1, "arm,cortex-a72", A72Cluster),
         CpuNode(Cpu0, "arm,cortex-r5", R5Cluster) >>,
      << CpuNode(Cpu0, "arm,cortex-a72", A72Cluster),
         CpuNode(Cpu100, "arm,cortex-a72", A72Cluster) >>,
      << CpuNode(Cpu1, "arm,cortex-a72", A72Cluster) >>,
      << CpuNode(Cpu0, "arm,cortex-a72", NoCluster),
         CpuNode(Cpu0, "arm,cortex-r5", R5Cluster) >>,
      << CpuNode(Cpu0, "arm,cortex-r5", R5Cluster),
         CpuNode(Cpu1, "arm,cortex-r5", R5Cluster) >> }

NoJsonTree ==
    [level |-> 0, default_access |-> << >>, destinations |-> << >>]

\* The variables a run of the CPU resolver leaves alone.
CpusFrame ==
    UNCHANGED << sdt, json_tree, cpus_info, access_node, a, dests, d,
                 flag_mapping, access_list, memory_list, sram_list, name,
                 defs, n, domains_tree, written >>

OtherIdle ==
    /\ name = << >>
    /\ defs = [flags |-> << "" >>, flags_node |-> << >>, has_flags_node |-> FALSE]
    /\ n = 0
    /\ domains_tree = << >>
    /\ written = 0

AccessIdle ==
    /\ access_node = << >>
    /\ a = 0
    /\ dests = << >>
    /\ d = 0
    /\ flag_mapping = << >>
    /\ access_list = << >>
    /\ memory_list = << >>
    /\ sram_list = << >>

CpusIdle ==
    /\ cpus_info = << >>
    /\ c = 0
    /\ cpus_list = << >>

\* A call isospec_process_cpus( cpus_info, sdt, json_tree ).
InitCpus ==
    /\ sdt \in { [cpus |-> hc, devs |-> << >>, mems |-> << >>] : hc \in HwCpus }
    /\ json_tree = NoJsonTree
    /\ pc = "cpus"
    /\ cpus_info \in CpusInputs
    /\ c = 0
    /\ cpus_list = << >>
    /\ ret = [none |-> FALSE, list |-> << >>]
    /\ AccessIdle
    /\ OtherIdle

\* One iteration of the loop over cpus_info.
CpuStep ==
    /\ pc = "cpus"
    /\ c < Len(cpus_info)
    /\ LET st == cpu_iter([cpus_list |-> cpus_list, returned |-> FALSE],
                          cpus_info[c + 1], sdt)
       IN  /\ c' = c + 1
           /\ cpus_list' = st.cpus_list
           /\ pc' = IF st.returned THEN "done" ELSE "cpus"
           /\ ret' = IF st.returned THEN [none |-> TRUE, list |-> << >>] ELSE ret
    /\ CpusFrame

\* The loop is over: return cpus_list.
CpuReturn ==
    /\ pc = "cpus"
    /\ c = Len(cpus_info)
    /\ pc' = "done"
    /\ ret' = [none |-> FALSE, list |-> cpus_list]
    /\ UNCHANGED << c, cpus_list >>
    /\ CpusFrame

NextCpus == CpuStep \/ CpuReturn

SpecCpus == InitCpus /\ [][NextCpus]_vars

----------------------------------------------------------------------------
(* Properties of the CPU resolver, under SpecCpus.                         *)

\* A step of the loop that appended a cluster for the entry cpus_info[c'].
Resolved == pc = "cpus" /\ c' = c + 1 /\ Len(cpus_list') = Len(cpus_list) + 1

\* The nodes the resolver looks at for an entry.
NodesOf(cpu) == cnodes(sdt, cpu_compat(cpu.name))

NoDigit(s) == \A i \in 1 .. Len(s) : s[i] \notin Digits

\* C1: for an entry whose name maps to a compatible string and carries the
\* index n, the resolved cpumask has bit n set if and only if a node named
\* cpu@n is among the nodes of that compatible string; no other bit is set,
\* and the mask is 0 when there is no such node.
C1_MaskBitIffNodeNamed ==
    [][ (Resolved /\ first_number(cpus_info[c'].name) # << >>)
        => LET num   == first_number(cpus_info[c'].name)
               nodes == NodesOf(cpus_info[c'])
           IN  cpus_list'[Len(cpus_list')].cpumask =
                 IF \E i \in DOMAIN nodes : nodes[i].name = CpuAt \o num
                 THEN hex(2 ^ int(num))
                 ELSE hex(0) ]_vars

Unmatched(cpu) == cpu_compat(cpu.name) # "" /\ NodesOf(cpu) = << >>

\* C8 as stated: when an entry maps to a compatible string that no hardware
\* node carries, the resolver returns none for the whole list.
C8_UnmatchedVoidsList ==
    (pc = "done" /\ \E i \in 1 .. c : Unmatched(cpus_info[i])) => ret.none

\* C8: an entry that maps to a compatible string no hardware node carries is
\* skipped alone: the clusters resolved so far are kept and the loop goes on;
\* none is returned only for an entry whose first compatible node has no
\* parent.
C8_UnmatchedSkipsEntry ==
    [][ /\ (pc = "cpus" /\ c < Len(cpus_info) /\ Unmatched(cpus_info[c + 1]))
           => (pc' = "cpus" /\ c' = c + 1 /\ cpus_list' = cpus_list /\ ret' = ret)
        /\ (pc = "cpus" /\ pc' = "done" /\ ret'.none)
           => /\ c' = c + 1
              /\ NodesOf(cpus_info[c']) # << >>
              /\ ~NodesOf(cpus_info[c'])[1].parent.present
        /\ (pc = "cpus" /\ pc' = "done" /\ ~ret'.none)
           => (c = Len(cpus_info) /\ ret'.list = cpus_list) ]_vars

\* C8: a list whose first entry was resolved and whose second entry maps to a
\* compatible string without nodes has returned the first entry's cluster.
C8_Witness ==
    /\ pc = "done"
    /\ Len(cpus_info) = 2
    /\ ~Unmatched(cpus_info[1])
    /\ Unmatched(cpus_info[2])
    /\ ~ret.none
    /\ Len(ret.list) = 1

----------------------------------------------------------------------------
(* The name-pattern classifiers, run on their own.                         *)

NameParts ==
    { << "A", "P" >>, << "R", "P" >>, << "U" >>, << "D", "D", "R", "0" >>,
      << "O", "C", "M" >>, << "0" >>, << "_" >> }

RECURSIVE Concat(_)
Concat(parts) ==
    IF parts = << >> THEN << >> ELSE Head(parts) \o Concat(Tail(parts))

ClassifiedNames == { Concat(ps) : ps \in SeqsUpTo(NameParts, MaxParts) }

\* A call of the three lookups on one name.
InitClassify ==
    /\ sdt = [cpus |-> << >>, devs |-> << >>, mems |-> << >>]
    /\ json_tree = NoJsonTree
    /\ pc = "classify"
    /\ name \in ClassifiedNames
    /\ ret = [compat |-> "", type |-> "", dest |-> ""]
    /\ CpusIdle
    /\ AccessIdle
    /\ defs = [flags |-> << "" >>, flags_node |-> << >>, has_flags_node |-> FALSE]
    /\ n = 0
    /\ domains_tree = << >>
    /\ written = 0

Classify ==
    /\ pc = "classify"
    /\ pc' = "done"
    /\ ret' = [compat |-> cpu_compat(name),
               type   |-> isospec_memory_type(name),
               dest   |-> isospec_memory_dest(name)]
    /\ UNCHANGED << sdt, json_tree, cpus_info, c, cpus_list, access_node, a,
                    dests, d, flag_mapping, access_list, memory_list,
                    sram_list, name, defs, n, domains_tree, written >>

SpecClassify == InitClassify /\ [][Classify]_vars

\* C9: both classifiers return the value of the first table entry, in table
\* order, whose pattern matches the name, also for a name that more than one
\* pattern matches; a name that no pattern matches yields the empty result.
C9_FirstMatchWins ==
    pc = "done" =>
      LET cm == Matches(iso_cpus_to_device_tree_map, name)
          mm == Matches(iso_memory_device_map, name)
      IN  /\ ret.compat = IF cm = {} THEN ""
                          ELSE iso_cpus_to_device_tree_map[Min(cm)].value
          /\ ret.type = IF mm = {} THEN ""
                        ELSE iso_memory_device_map[Min(mm)].value[1]
          /\ ret.dest = IF mm = {} THEN ""
                        ELSE iso_memory_device_map[Min(mm)].value[2]

----------------------------------------------------------------------------
(* The flags of an access definition.                                      *)

\* defs.propval( "flags" ): the values of the property, [""] when the node
\* has no such property.
propval_flags(node) == node.flags

\* flags.append( p ) for the properties p of a child named flags; the items
\* of the list are then raw values (of the property) and properties.
flag_items(node) ==
    LET raw == [i \in DOMAIN propval_flags(node) |->
                   [is_prop |-> FALSE, name |-> "", value |-> propval_flags(node)[i]]]
    IN  IF propval_flags(node)[1] = "" /\ node.has_flags_node
        THEN raw \o [i \in DOMAIN node.flags_node |->
                        [is_prop |-> TRUE,
                         name    |-> node.flags_node[i].name,
                         value   |-> node.flags_node[i].value]]
        ELSE raw

\* isospec_device_flags( device_name, defs, json_tree ): flag.value and
\* flag.name exist for a property only; on a raw value they raise, and the
\* item is passed over.
isospec_device_flags(node) ==
    LET items == flag_items(node)
        names == { items[i].name : i \in { j \in DOMAIN items :
                      items[j].is_prop /\ items[j].value # "" } }
    IN  [f \in names |-> TRUE]

FlagNames == { "read_only", "secure", "requested" }

FlagProps == { [name |-> f, value |-> v] : f \in FlagNames, v \in { "", "true" } }

FlagNodes ==
    { ps \in SeqsUpTo(FlagProps, MaxFlags) :
        \A i, j \in DOMAIN ps : ps[i].name = ps[j].name => i = j }

\* Access definitions: with a flags property, with a flags child, with both,
\* with neither.
DefsInputs ==
    { [flags |-> fl, flags_node |-> fn[2], has_flags_node |-> fn[1]] :
        fl \in { << "" >> } \cup (SeqsUpTo(FlagNames, MaxFlags) \ { << >> }),
        fn \in { << FALSE, << >> >> } \cup { << TRUE, x >> : x \in FlagNodes } }

InitFlags ==
    /\ sdt = [cpus |-> << >>, devs |-> << >>, mems |-> << >>]
    /\ json_tree = NoJsonTree
    /\ pc = "flags"
    /\ defs \in DefsInputs
    /\ ret = << >>
    /\ CpusIdle
    /\ AccessIdle
    /\ name = << >>
    /\ n = 0
    /\ domains_tree = << >>
    /\ written = 0

DeviceFlags ==
    /\ pc = "flags"
    /\ pc' = "done"
    /\ ret' = isospec_device_flags(defs)
    /\ UNCHANGED << sdt, json_tree, cpus_info, c, cpus_list, access_node, a,
                    dests, d, flag_mapping, access_list, memory_list,
                    sram_list, name, defs, n, domains_tree, written >>

SpecFlags == InitFlags /\ [][DeviceFlags]_vars

\* The flags an access definition declares: the values of its flags
\* property when it has one, else the properties of its flags child.
Declared(node) ==
    IF node.flags # << "" >>
    THEN { node.flags[i] : i \in DOMAIN node.flags }
    ELSE IF node.has_flags_node
    THEN { node.flags_node[i].name : i \in DOMAIN node.flags_node }
    ELSE {}

\* C10: the mapping returned holds exactly the declared flags, each mapped
\* to true, whether they are declared by a flags property or by the
\* properties of a flags child (whatever their values).
C10_ExactlyDeclaredFlags ==
    pc = "done" => ret = [f \in Declared(defs) |-> TRUE]

----------------------------------------------------------------------------
(* The destination resolver.                                               *)

\* isospec_device_defaults( device_name, json_tree ): the node
\* /default_settings/subsystems/default/access/<device_name>.
\* json_tree.level counts the leading segments of that path which exist:
\* /default_settings (1), subsystems (2), default (3), access (4).
\* json_tree[path] raises KeyError for a path that does not exist (the
\* lookup of line 568 and its handler of line 577 rest on that); the
\* children named default, access and <device_name> are searched for, and
\* None is returned when one is missing.
isospec_device_defaults(device_name, jt) ==
    LET hits == { i \in DOMAIN jt.default_access :
                    jt.default_access[i].name = device_name }
    IN  IF jt.level < 2 THEN [result |-> "KeyError"]
        ELSE IF jt.level < 4 \/ hits = {} THEN [result |-> "None"]
        ELSE [result |-> "node", node |-> jt.default_access[Min(hits)]]

\* isospec_device_destination( destination_list, json_tree ): for each name
\* of the list in turn, every record of a destinations property with that
\* name, in tree order.
RECURSIVE isospec_device_destination(_, _)
isospec_device_destination(destination_list, jt) ==
    IF destination_list = << >> THEN << >>
    ELSE SelectSeq(jt.destinations,
                   LAMBDA x : x.name = Head(destination_list))
         \o isospec_device_destination(Tail(destination_list), jt)

----------------------------------------------------------------------------
(* The memory and sram region resolver.                                    *)

\* sdt.tree.addr_node( address )
addr_node(hw, address) ==
    IF address \in DOMAIN hw.devs
    THEN [found |-> TRUE, name |-> hw.devs[address]]
    ELSE [found |-> FALSE, name |-> ""]

\* int.from_bytes( encode_byte_array( cells ), "big" ): the number whose
\* digits in base 2^32 are the cells, kept as those digits without leading
\* zeros (<< >> is 0).
RECURSIVE from_cells(_)
from_cells(cells) ==
    IF cells = << >> THEN << >>
    ELSE IF Head(cells) = 0 THEN from_cells(Tail(cells))
    ELSE cells

address_cells == 2

\* Lines 277-306: the regions of the nodes from node i on. A node without
\* device_type raises KeyError at line 278, outside the try; a node without
\* reg raises inside the try and is passed over.
RECURSIVE memory_regions(_, _)
memory_regions(nodes, i) ==
    IF i > Len(nodes) THEN [exc |-> FALSE, list |-> << >>]
    ELSE IF nodes[i].device_type = "absent" THEN [exc |-> TRUE, list |-> << >>]
    ELSE LET rest == memory_regions(nodes, i + 1)
             here == IF nodes[i].device_type = "memory" /\ nodes[i].has_reg
                     THEN << [start |-> from_cells(SubSeq(nodes[i].reg, 1, address_cells)),
                              size  |-> from_cells(SubSeq(nodes[i].reg, address_cells + 1,
                                                          Len(nodes[i].reg)))] >>
                     ELSE << >>
         IN  [exc |-> rest.exc, list |-> IF rest.exc THEN << >> ELSE here \o rest.list]

\* isospec_process_memory( name, dest, sdt, json_tree ). hw.mems are the
\* nodes sdt.tree.nodes( "memory@.*" ) returns. exc: a KeyError left the
\* function.
isospec_process_memory(nm, dest, hw) ==
    IF isospec_memory_type(nm) = "memory" THEN memory_regions(hw.mems, 1)
    ELSE IF isospec_memory_type(nm) = "sram"
    THEN IF ~dest.has_addr THEN [exc |-> TRUE, list |-> << >>]
         ELSE IF addr_node(hw, dest.addr).found THEN [exc |-> FALSE, list |-> << >>]
         ELSE IF ~dest.has_size THEN [exc |-> TRUE, list |-> << >>]
         ELSE [exc |-> FALSE, list |-> << [start |-> dest.addr, size |-> dest.size] >>]
    ELSE [exc |-> FALSE, list |-> << >>]

----------------------------------------------------------------------------
(* The access resolver.                                                    *)

\* Lines 340-358 for one child of the access node: "skip" when an exception
\* reaches the handler of line 397, "exit" when _error ends the run, else
\* the flags and destinations of its default.
access_lookup(access, jt) ==
    LET dd == isospec_device_defaults(access.name, jt)
    IN  IF ~access.same_as_default THEN [kind |-> "skip"]
        ELSE IF dd.result = "KeyError" THEN [kind |-> "skip"]
        ELSE IF dd.result = "None" THEN [kind |-> "exit"]
        ELSE [kind  |-> "ok",
              flags |-> isospec_device_flags(dd.node),
              dests |-> isospec_device_destination(dd.node.destinations, jt)]

\* Lines 363-395 for one destination. exc: an exception left the handler of
\* line 376, and with it the loop over the destinations.
dest_iter(lists, dest, flags, hw) ==
    IF dest.has_addr /\ addr_node(hw, dest.addr).found
    THEN [lists EXCEPT !.access_list =
             Append(@, [dev |-> addr_node(hw, dest.addr).name, flags |-> flags])]
    ELSE IF map_lookup(iso_memory_device_map, dest.name).found
    THEN LET ml == isospec_process_memory(dest.name, dest, hw)
         IN  IF ml.exc THEN [lists EXCEPT !.exc = TRUE]
             ELSE [lists EXCEPT
                     !.memory_list = IF isospec_memory_type(dest.name) = "memory"
                                     THEN @ \o ml.list ELSE @,
                     !.sram_list   = IF isospec_memory_type(dest.name) = "sram"
                                     THEN @ \o ml.list ELSE @]
    ELSE lists                                  \* warning

\* The loop over the destinations of one child, from destination i on.
RECURSIVE dest_loop(_, _, _, _, _)
dest_loop(lists, ds, i, flags, hw) ==
    IF lists.exc THEN [lists EXCEPT !.exc = FALSE]
    ELSE IF i > Len(ds) THEN lists
    ELSE dest_loop(dest_iter(lists, ds[i], flags, hw), ds, i + 1, flags, hw)

\* The loop over the children of the access node, from child i on.
RECURSIVE access_loop(_, _, _, _, _)
access_loop(lists, children, i, hw, jt) ==
    IF i > Len(children) THEN lists
    ELSE LET r == access_lookup(children[i], jt)
         IN  IF r.kind = "exit"
             THEN [exc |-> FALSE, exit |-> TRUE, access_list |-> << >>,
                   memory_list |-> << >>, sram_list |-> << >>]
             ELSE IF r.kind = "skip" THEN access_loop(lists, children, i + 1, hw, jt)
             ELSE access_loop(dest_loop(lists, r.dests, 1, r.flags, hw),
                              children, i + 1, hw, jt)

NoLists ==
    [exc |-> FALSE, exit |-> FALSE, access_list |-> << >>,
     memory_list |-> << >>, sram_list |-> << >>]

\* isospec_process_access( access_node, sdt, json_tree ): the three lists,
\* or exit when sys.exit ended the run.
isospec_process_access(children, hw, jt) ==
    access_loop(NoLists, children, 1, hw, jt)

----------------------------------------------------------------------------
(* Inputs of the access resolver.                                          *)

UART0 == << "U", "A", "R", "T", "0" >>

TTC0 == << "T", "T", "C", "0" >>

DDR0 == << "D", "D", "R", "0" >>

OCM0 == << "O", "C", "M", "0" >>

OCM1 == << "O", "C", "M", "1" >>

OCM2 == << "O", "C", "M", "2" >>

DDR0_OCM == << "D", "D", "R", "0", "_", "O", "C", "M" >>

Dest(nm, has_addr, addr, has_size, size) ==
    [name |-> nm, has_addr |-> has_addr, addr |-> addr,
     has_size |-> has_size, size |-> size]

\* The destination records of the specification: a device with a hardware
\* node (UART0), one without (TTC0), memory, sram with and without size or
\* addr, and a name both memory patterns match.
DestTable ==
    << Dest(UART0, TRUE, 1, FALSE, 0),
       Dest(TTC0, TRUE, 2, FALSE, 0),
       Dest(DDR0, TRUE, 3, FALSE, 0),
       Dest(OCM0, TRUE, 4, TRUE, 8),
       Dest(OCM1, TRUE, 5, FALSE, 0),
       Dest(OCM2, FALSE, 0, TRUE, 8),
       Dest(DDR0_OCM, TRUE, 6, TRUE, 8) >>

DestNames == { DestTable[i].name : i \in DOMAIN DestTable }

DestLists == SeqsUpTo(DestNames, MaxDests)

\* The default of dev_a, with its flags in a child node.
DefA(dl) ==
    [name |-> "dev_a", destinations |-> dl, flags |-> << "" >>,
     has_flags_node |-> TRUE,
     flags_node |-> << [name |-> "read_only", value |-> "true"] >>]

\* The default of dev_b, with its flags in a property.
DefB ==
    [name |-> "dev_b", destinations |-> << UART0 >>, flags |-> << "secure" >>,
     has_flags_node |-> FALSE, flags_node |-> << >>]

\* Specification trees: the whole defaults path with every destinations
\* list for dev_a, and trees in which a segment of the path is missing.
JsonTrees ==
    { [level |-> 4, default_access |-> << DefA(dl), DefB >>,
       destinations |-> DestTable] : dl \in DestLists }
    \cup { [level |-> lv, default_access |-> << DefA(<< UART0 >>), DefB >>,
            destinations |-> DestTable] : lv \in 0 .. 3 }
    \cup { [level |-> 4, default_access |-> << DefB >>,
            destinations |-> DestTable] }

\* Children of an access node: two that refer to their default, one that
\* carries its own definition.
AccessChildren ==
    { [name |-> "dev_a", same_as_default |-> TRUE, destinations |-> << >>],
      [name |-> "dev_b", same_as_default |-> TRUE, destinations |-> << >>],
      [name |-> "dev_c", same_as_default |-> FALSE, destinations |-> << UART0 >>] }

AccessInputs == SeqsUpTo(AccessChildren, MaxAccess)

MemNode(device_type, has_reg, reg) ==
    [device_type |-> device_type, has_reg |-> has_reg, reg |-> reg]

Serial == 1 :> "serial@1"

\* Hardware trees: nodes by address, and the nodes named memory@...
HwAccess ==
    { [cpus |-> << >>, devs |-> Serial,
       mems |-> << MemNode("memory", TRUE, << 0, 16, 0, 8 >>) >>],
      [cpus |-> << >>, devs |-> Serial @@ 3 :> "mc@3" @@ 4 :> "ocm@4",
       mems |-> << MemNode("memory", TRUE, << 0, 16, 0, 8 >>) >>],
      [cpus |-> << >>, devs |-> Serial, mems |-> << >>],
      [cpus |-> << >>, devs |-> Serial,
       mems |-> << MemNode("memory", TRUE, << 0, 16, 0, 8 >>),
                   MemNode("absent", TRUE, << 0, 0, 0, 8 >>) >>],
      [cpus |-> << >>, devs |-> Serial,
       mems |-> << MemNode("other", TRUE, << 0, 0, 0, 8 >>),
                   MemNode("memory", TRUE, << 0, 0, 0, 8, 8, 0, 0, 8 >>),
                   MemNode("memory", FALSE, << >>) >>],
      [cpus |-> << >>, devs |-> Serial,
       mems |-> << MemNode("memory", TRUE, << 0, 16, 0, 8 >>),
                   MemNode("memory", TRUE, << 0, 32, 0, 4 >>) >>],
      [cpus |-> << >>, devs |-> Serial,
       mems |-> << MemNode("other", TRUE, << 0, 0, 0, 8 >>),
                   MemNode("memory", TRUE, << 0, 16, 0, 8, 0, 4 >>) >>] }

AccessFrame ==
    UNCHANGED << sdt, json_tree, cpus_info, c, cpus_list, access_node, name,
                 defs, n, domains_tree, written >>

\* A call isospec_process_access( access_node, sdt, json_tree ).
InitAccess ==
    /\ sdt \in HwAccess
    /\ json_tree \in JsonTrees
    /\ pc = "access"
    /\ access_node \in AccessInputs
    /\ a = 0
    /\ dests = << >>
    /\ d = 0
    /\ flag_mapping = << >>
    /\ access_list = << >>
    /\ memory_list = << >>
    /\ sram_list = << >>
    /\ ret = NoLists
    /\ CpusIdle
    /\ OtherIdle

\* The next child of the access node: its default, flags and destinations.
AccessEnter ==
    /\ pc = "access"
    /\ a < Len(access_node)
    /\ a' = a + 1
    /\ d' = 0
    /\ LET r == access_lookup(access_node[a + 1], json_tree)
       IN  /\ pc' = IF r.kind = "exit" THEN "exit"
                    ELSE IF r.kind = "ok" /\ r.dests # << >> THEN "dests"
                    ELSE "access"
           /\ dests' = IF r.kind = "ok" THEN r.dests ELSE << >>
           /\ flag_mapping' = IF r.kind = "ok" THEN r.flags ELSE << >>
           /\ ret' = IF r.kind = "exit" THEN [NoLists EXCEPT !.exit = TRUE] ELSE ret
    /\ UNCHANGED << access_list, memory_list, sram_list >>
    /\ AccessFrame

\* The next destination of the current child.
DestStep ==
    /\ pc = "dests"
    /\ d < Len(dests)
    /\ d' = d + 1
    /\ LET r == dest_iter([exc |-> FALSE, exit |-> FALSE,
                           access_list |-> access_list,
                           memory_list |-> memory_list,
                           sram_list |-> sram_list],
                          dests[d + 1], flag_mapping, sdt)
       IN  /\ access_list' = r.access_list
           /\ memory_list' = r.memory_list
           /\ sram_list' = r.sram_list
           /\ pc' = IF r.exc \/ d + 1 = Len(dests) THEN "access" ELSE "dests"
    /\ UNCHANGED << a, dests, flag_mapping, ret >>
    /\ AccessFrame

\* Every child is done: return the three lists.
AccessReturn ==
    /\ pc = "access"
    /\ a = Len(access_node)
    /\ pc' = "done"
    /\ ret' = [exc |-> FALSE, exit |-> FALSE, access_list |-> access_list,
               memory_list |-> memory_list, sram_list |-> sram_list]
    /\ UNCHANGED << a, dests, d, flag_mapping, access_list, memory_list,
                    sram_list >>
    /\ AccessFrame

NextAccess == AccessEnter \/ DestStep \/ AccessReturn

SpecAccess == InitAccess /\ [][NextAccess]_vars

\* The steps give what the function gives when run as a whole.
StepsAgree ==
    pc \in { "done", "exit" } =>
        ret = isospec_process_access(access_node, sdt, json_tree)

----------------------------------------------------------------------------
(* Properties of the access resolver, under SpecAccess.                    *)

RECURSIVE tolerant_dests(_, _, _, _, _)
tolerant_dests(lists, ds, i, flags, hw) ==
    IF i > Len(ds) THEN lists
    ELSE tolerant_dests([dest_iter(lists, ds[i], flags, hw) EXCEPT !.exc = FALSE],
                        ds, i + 1, flags, hw)

RECURSIVE tolerant_access(_, _, _, _, _)
tolerant_access(lists, children, i, hw, jt) ==
    IF i > Len(children) THEN lists
    ELSE LET r == access_lookup(children[i], jt)
         IN  IF r.kind = "ok"
             THEN tolerant_access(tolerant_dests(lists, r.dests, 1, r.flags, hw),
                                  children, i + 1, hw, jt)
             ELSE tolerant_access(lists, children, i + 1, hw, jt)

\* C4: a destination that does not resolve (no hardware node at its
\* address, no memory pattern, a missing size or addr) drops that
\* destination alone: the lists returned hold, in declaration order, what
\* every other destination of every child contributes.
C4_DropsOnlyThatDestination ==
    pc = "done" => ret = tolerant_access(NoLists, access_node, 1, sdt, json_tree)

\* C7: a child without same_as_default whose own destination has a hardware
\* node at its address yields an access entry for that node.
C7_OwnDefinitionResolved ==
    pc = "done" =>
      \A i \in DOMAIN access_node :
        ~access_node[i].same_as_default =>
          \A j \in DOMAIN access_node[i].destinations :
            \A k \in DOMAIN json_tree.destinations :
              LET r == json_tree.destinations[k]
              IN  (r.name = access_node[i].destinations[j]
                     /\ r.has_addr /\ addr_node(sdt, r.addr).found)
                  => \E e \in DOMAIN ret.access_list :
                        ret.access_list[e].dev = addr_node(sdt, r.addr).name

\* size_cells = 2 (line 288)
size_cells == 2

\* The region of the first node of nodes whose device_type is memory, with
\* its start decoded from the first address_cells cells of reg and its size
\* from the size_cells cells after them; << >> when there is no such node.
first_region(nodes) ==
    LET hits == { i \in DOMAIN nodes : nodes[i].device_type = "memory" }
    IN  IF hits = {} THEN << >>
        ELSE LET reg == nodes[Min(hits)].reg
             IN  << [start |-> from_cells(SubSeq(reg, 1, address_cells)),
                     size  |-> from_cells(SubSeq(reg, address_cells + 1,
                                                 address_cells + size_cells))] >>

\* Every memory@ node has a device_type, and a reg of at least
\* address_cells + size_cells cells when that type is memory.
WellFormed(nodes) ==
    \A i \in DOMAIN nodes :
        /\ nodes[i].device_type # "absent"
        /\ nodes[i].device_type = "memory"
             => nodes[i].has_reg
                /\ Len(nodes[i].reg) >= address_cells + size_cells

\* C11: a destination classified as memory that reaches the region resolver
\* adds to the memory list at most one region, that of the first memory@
\* node whose device_type is memory: start from the first 2 cells of its
\* reg, size from the 2 cells after them; further nodes and further cells
\* add nothing.
C11_FirstNodeTwoCells ==
    [][ (/\ pc = "dests" /\ d' = d + 1
         /\ WellFormed(sdt.mems)
         /\ isospec_memory_type(dests[d'].name) = "memory"
         /\ ~(dests[d'].has_addr /\ addr_node(sdt, dests[d'].addr).found))
        => memory_list' = memory_list \o first_region(sdt.mems)
      ]_vars

----------------------------------------------------------------------------
(* The orchestrator.                                                       *)

\* json.dumps( value ): the value as a JSON text, kept as the value under a
\* tag; None is dumped as null.
json_dumps(value) == << "json", value >>

json_dumps_cpus(r) == IF r.none THEN << "json", "null" >> ELSE json_dumps(r.list)

\* domains_tree_add_subsystem( domains_tree, subsystem_name, subsystem_id )
domains_tree_add_subsystem(tree, subsystem_name, subsystem_id) ==
    Append(tree, [name |-> subsystem_name, compatible |-> "xilinx,subsystem",
                  id |-> subsystem_id])

\* subsystem_node[ prop ] = value, on the node added last
set_prop(tree, prop, value) ==
    [tree EXCEPT ![Len(tree)] = (prop :> value) @@ @]

\* The subsystem the loop of isospec_domain is at.
Subsystem == json_tree.subsystems[n + 1]

ApuRpu ==
    << [name |-> << "A", "P", "U", "0" >>, secure |-> "absent", mode |-> "absent"],
       [name |-> << "R", "P", "U" >>, secure |-> "True", mode |-> "el"] >>

SubsystemNames == << "apu_ss", "rpu_ss", "pmc_ss" >>

\* What a subsystem may hold: cpus or none, an access node or none.
SubsystemKinds ==
    { [has_cpus |-> cp[1], cpus |-> cp[2], has_access |-> ac[1], access |-> ac[2]] :
        cp \in { << FALSE, << >> >>, << TRUE, ApuRpu >>,
                 << TRUE, << [name |-> << "G", "P", "U", "0" >>,
                              secure |-> "absent", mode |-> "absent"] >> >> },
        ac \in { << FALSE, << >> >>,
                 << TRUE, << [name |-> "dev_a", same_as_default |-> TRUE,
                              destinations |-> << >>] >> >>,
                 << TRUE, << [name |-> "dev_c", same_as_default |-> FALSE,
                              destinations |-> << UART0 >>],
                             [name |-> "dev_b", same_as_default |-> TRUE,
                              destinations |-> << >>] >> >> } }

\* The children of /design/subsystems, in the order of the specification.
SubsystemInputs ==
    { [i \in DOMAIN ks |->
         [name |-> SubsystemNames[i], id |-> i,
          has_cpus |-> ks[i].has_cpus, cpus |-> ks[i].cpus,
          has_access |-> ks[i].has_access, access |-> ks[i].access]] :
        ks \in SeqsUpTo(SubsystemKinds, MaxSubsystems) }

DomainTrees ==
    { [level |-> lv, default_access |-> << DefA(dl), DefB >>,
       destinations |-> DestTable, subsystems |-> ss] :
        lv \in { 0, 2, 4 },
        dl \in { << UART0, DDR0 >>, << OCM1, UART0 >> },
        ss \in SubsystemInputs }

HwDomain ==
    { [cpus |-> << CpuNode(Cpu0, "arm,cortex-a72", A72Cluster),
                   CpuNode(Cpu0, "arm,cortex-r5", R5Cluster) >>,
       devs |-> Serial,
       mems |-> << MemNode("memory", TRUE, << 0, 16, 0, 8 >>) >>],
      [cpus |-> << CpuNode(Cpu0, "arm,cortex-a72", NoCluster) >>,
       devs |-> << >>, mems |-> << >>] }

\* isospec_domain( tgt_node, sdt, options ) once json_tree is loaded and
\* domains_tree started.
Init ==
    /\ sdt \in HwDomain
    /\ json_tree \in DomainTrees
    /\ pc = "subsystem"
    /\ n = 0
    /\ domains_tree = << >>
    /\ written = 0
    /\ ret = FALSE
    /\ name = << >>
    /\ defs = [flags |-> << "" >>, flags_node |-> << >>, has_flags_node |-> FALSE]
    /\ CpusIdle
    /\ AccessIdle

DomainFrame ==
    UNCHANGED << sdt, json_tree, cpus_info, c, cpus_list, access_node, a, dests,
                 d, flag_mapping, access_list, memory_list, sram_list, name,
                 defs >>

\* Lines 546-553: the node of the next subsystem is added to the tree.
AddSubsystem ==
    /\ pc = "subsystem"
    /\ n < Len(json_tree.subsystems)
    /\ domains_tree' = domains_tree_add_subsystem(domains_tree, Subsystem.name,
                                                  Subsystem.id)
    /\ pc' = "cpus"
    /\ UNCHANGED << n, written, ret >>
    /\ DomainFrame

\* A mutant of SubsystemCpus: a subsystem without cpus ends the run.
SubsystemCpusFatal ==
    /\ pc = "cpus"
    /\ domains_tree' =
         IF Subsystem.has_cpus
         THEN set_prop(domains_tree, "cpus",
                       json_dumps_cpus(isospec_process_cpus(Subsystem.cpus, sdt)))
         ELSE domains_tree
    /\ pc' = IF Subsystem.has_cpus THEN "access" ELSE "exit"
    /\ UNCHANGED << n, written, ret >>
    /\ DomainFrame

\* Lines 555-564: the cpus of the subsystem; a subsystem without cpus is
\* logged (KeyError) and nothing is attached.
SubsystemCpus ==
    /\ pc = "cpus"
    /\ domains_tree' =
         IF Subsystem.has_cpus
         THEN set_prop(domains_tree, "cpus",
                       json_dumps_cpus(isospec_process_cpus(Subsystem.cpus, sdt)))
         ELSE domains_tree
    /\ pc' = "access"
    /\ UNCHANGED << n, written, ret >>
    /\ DomainFrame

\* subsystem_node["memory"], ["sram"] and ["access"] of lines 570-576
attach_lists(tree, r) ==
    LET t1 == IF r.memory_list # << >>
              THEN set_prop(tree, "memory", json_dumps(r.memory_list)) ELSE tree
        t2 == IF r.sram_list # << >>
              THEN set_prop(t1, "sram", json_dumps(r.sram_list)) ELSE t1
    IN  set_prop(t2, "access", json_dumps(r.access_list))

\* Lines 566-580: the access node of the subsystem. Without one the lookup
\* of line 568 raises KeyError and _error ends the run, as does a missing
\* default inside isospec_process_access.
SubsystemAccess ==
    /\ pc = "access"
    /\ LET r == isospec_process_access(Subsystem.access, sdt, json_tree)
       IN  IF ~Subsystem.has_access \/ r.exit
           THEN /\ pc' = "exit"
                /\ UNCHANGED << n, domains_tree >>
           ELSE /\ pc' = "subsystem"
                /\ n' = n + 1
                /\ domains_tree' = attach_lists(domains_tree, r)
    /\ UNCHANGED << written, ret >>
    /\ DomainFrame

\* Lines 582-586: every subsystem is done, the tree is written.
Write ==
    /\ pc = "subsystem"
    /\ n = Len(json_tree.subsystems)
    /\ written' = written + 1
    /\ pc' = "written"
    /\ ret' = TRUE
    /\ UNCHANGED << n, domains_tree >>
    /\ DomainFrame

Next == AddSubsystem \/ SubsystemCpus \/ SubsystemAccess \/ Write

Spec == Init /\ [][Next]_vars

----------------------------------------------------------------------------
(* Properties of the orchestrator, under Spec.                             *)

\* A child that refers to a default which is not there: a segment of
\* /default_settings/subsystems/default/access/<name> is missing.
MissingDefault(child) ==
    /\ child.same_as_default
    /\ \/ json_tree.level < 4
       \/ \A i \in DOMAIN json_tree.default_access :
             json_tree.default_access[i].name # child.name

\* C5: an access child with same_as_default whose default is missing ends
\* the run: its subsystem is never completed and the writer never called.
C5_MissingDefaultFatal ==
    \A i \in 1 .. Len(json_tree.subsystems) :
      (/\ json_tree.subsystems[i].has_access
       /\ \E j \in DOMAIN json_tree.subsystems[i].access :
             MissingDefault(json_tree.subsystems[i].access[j]))
      => (n < i /\ written = 0)

\* C6: the writer is called at most once, and only when every subsystem has
\* been processed; the run ends early only at a subsystem without access
\* node or with a fatal error inside its access resolution, never for
\* missing cpus; a processed subsystem has its node in the tree with the
\* access list resolved for it attached, and a cpus attribute only when it
\* has cpus.
C6_WriterOnceAfterAll ==
    /\ written <= 1
    /\ written = 1 => (pc = "written" /\ n = Len(json_tree.subsystems))
    /\ pc = "written" => written = 1
    /\ pc = "exit" =>
         /\ written = 0
         /\ n < Len(json_tree.subsystems)
         /\ \/ ~Subsystem.has_access
            \/ isospec_process_access(Subsystem.access, sdt, json_tree).exit
    /\ Len(domains_tree) = IF pc \in { "cpus", "access", "exit" } THEN n + 1 ELSE n
    /\ \A i \in 1 .. n :
         /\ json_tree.subsystems[i].has_access
         /\ domains_tree[i].name = json_tree.subsystems[i].name
         /\ domains_tree[i].access =
              json_dumps(isospec_process_access(json_tree.subsystems[i].access,
                                                sdt, json_tree).access_list)
         /\ ("cpus" \in DOMAIN domains_tree[i]) = json_tree.subsystems[i].has_cpus

\* C6: the tree of two subsystems was written, the first of them without
\* cpus and with an access entry resolved.
C6_Witness ==
    /\ pc = "written"
    /\ written = 1
    /\ Len(json_tree.subsystems) = 2
    /\ ~json_tree.subsystems[1].has_cpus
    /\ "cpus" \notin DOMAIN domains_tree[1]
    /\ domains_tree[1].access # json_dumps(<< >>)

============================================================================
